---- MODULE Spec2Model ----
(***************************************************************************)
(* Model of crates/build-utils/src/filter.rs: the skip filter of the test  *)
(* suite (Filter::is_skipped) and the structural diff of two filter        *)
(* documents (Filter::diff, map_diff).                                     *)
(*                                                                         *)
(* A String is a sequence of one-character strings, so that a regex can be *)
(* matched against a file stem character by character.  A FilterMap        *)
(* (BTreeMap<Folder, Vec<String>>) is a function from a finite set of      *)
(* Strings to sequences of Strings.                                        *)
(***************************************************************************)
EXTENDS Integers, Sequences, FiniteSets, TLC

VARIABLES
    self,         \* the Filter document `self`
    other,        \* the Filter document `rhs` of Filter::diff
    path,         \* the PathWrapper given to is_skipped
    case_name,    \* the Option<String> given to is_skipped
    pc,           \* position of the running call
    should_skip,  \* is_skipped: the local `should_skip`
    ri,           \* is_skipped: index of the pattern the `any` over regexes is at
    lhs,          \* map_diff: the argument `lhs`
    rhs,          \* map_diff: the argument `rhs`
    top,          \* map_diff: the accumulated `top`
    pass,         \* map_diff: 1 for diff(&mut top, lhs, rhs), 2 for diff(&mut top, rhs, lhs)
    ki,           \* map_diff: index of the key the `for` loop is at
    diff_ab,      \* result of self.diff(&other)
    diff_ba       \* result of other.diff(&self)

vars == <<self, other, path, case_name, pc, should_skip, ri,
          lhs, rhs, top, pass, ki, diff_ab, diff_ba>>

----------------------------------------------------------------------------
(* Bounds of the model *)

\* longest list of regex patterns under one directory
MaxRegexes == 2
\* longest list of file stems, and of test names, under one directory
MaxNames == 1
\* longest list under one key of the mappings given to map_diff
MaxList == 2

----------------------------------------------------------------------------
(* Strings *)

EmptyStr == <<>>

\* Sequences over S of length 0..n
SeqUpTo(S, n) == UNION {[1..k -> S] : k \in 0..n}

\* code point of a character, for the ordering of BTreeMap keys
Code(c) ==
    CASE c = "(" -> 40
      [] c = "*" -> 42
      [] c = "." -> 46
      [] c = "a" -> 97
      [] c = "b" -> 98
      [] c = "d" -> 100
      [] c = "j" -> 106
      [] c = "t" -> 116
      [] c = "u" -> 117
      [] c = "x" -> 120
      [] c = "y" -> 121

\* s < t in the lexicographic order of String (Ord for String)
RECURSIVE StrLess(_, _)
StrLess(s, t) ==
    IF t = <<>> THEN FALSE
    ELSE IF s = <<>> THEN TRUE
    ELSE IF Code(Head(s)) # Code(Head(t)) THEN Code(Head(s)) < Code(Head(t))
    ELSE StrLess(Tail(s), Tail(t))

----------------------------------------------------------------------------
(* FilterMap = BTreeMap<Folder, Vec<String>> *)

\* the mappings with keys among K and lists among L
MapsOver(K, L) == UNION {[D -> L] : D \in SUBSET K}

\* the mappings with at most one key
SingleMaps(K, L) == UNION {[D -> L] : D \in {{}} \cup {{k} : k \in K}}

ContainsKey(m, k) == k \in DOMAIN m

\* BTreeMap::iter: the keys in ascending order
Keys(m) ==
    CHOOSE s \in [1..Cardinality(DOMAIN m) -> DOMAIN m] :
        \A i, j \in 1..Cardinality(DOMAIN m) : i < j => StrLess(s[i], s[j])

\* Vec::contains / iter().any(|x| x == v)
Contains(list, v) == \E i \in 1..Len(list) : list[i] = v

----------------------------------------------------------------------------
(* Regex::new(pattern).expect(..).is_match(text), for patterns made of     *)
(* literal characters, `.`, the postfix `*` and the group opener `(`.      *)

\* One parsed item: the character class of an atom and whether it is starred.
Item(c, starred) == [atom |-> c, star |-> starred]

\* The parse of a pattern: "error" for a `*` with nothing to repeat or an
\* unclosed group, else the items read so far.
RECURSIVE ParseFrom(_, _, _)
ParseFrom(p, i, items) ==
    IF i > Len(p) THEN [ok |-> TRUE, items |-> items]
    ELSE IF p[i] = "(" THEN [ok |-> FALSE, items |-> <<>>]
    ELSE IF p[i] = "*" THEN
        IF items = <<>> THEN [ok |-> FALSE, items |-> <<>>]
        ELSE ParseFrom(p, i + 1,
                 [items EXCEPT ![Len(items)] = Item(items[Len(items)].atom, TRUE)])
    ELSE ParseFrom(p, i + 1, Append(items, Item(p[i], FALSE)))

\* Regex::new(pattern)
RegexNew(p) == ParseFrom(p, 1, <<>>)

\* Regex::new(pattern).is_ok()
Compiles(p) == RegexNew(p).ok

AtomMatches(atom, c) == atom = "." \/ atom = c

\* the items from i on match text[j..e-1] for some end e (anchored: e = Len+1)
RECURSIVE MatchAt(_, _, _, _, _)
MatchAt(items, i, text, j, anchored) ==
    IF i > Len(items) THEN (~anchored \/ j = Len(text) + 1)
    ELSE IF items[i].star THEN
        \/ MatchAt(items, i + 1, text, j, anchored)
        \/ /\ j <= Len(text)
           /\ AtomMatches(items[i].atom, text[j])
           /\ MatchAt(items, i, text, j + 1, anchored)
    ELSE /\ j <= Len(text)
         /\ AtomMatches(items[i].atom, text[j])
         /\ MatchAt(items, i + 1, text, j + 1, anchored)

\* a bug variant: the pattern must match from the first character of the text
IsMatchFromStart(p, text) == MatchAt(RegexNew(p).items, 1, text, 1, FALSE)

\* Regex::is_match: the compiled pattern matches somewhere in the text
IsMatch(p, text) ==
    \E j \in 1..(Len(text) + 1) : MatchAt(RegexNew(p).items, 1, text, j, FALSE)

\* a bug variant: a pattern that does not compile counts as "no match"
PatternOutcomeLenient(p, text) ==
    IF Compiles(p) /\ IsMatch(p, text) THEN "match" ELSE "nomatch"

\* Regex::new(regex.as_str()).expect("Error with regex pattern").is_match(&file_name)
PatternOutcome(p, text) ==
    IF ~Compiles(p) THEN "panic"
    ELSE IF IsMatch(p, text) THEN "match"
    ELSE "nomatch"

----------------------------------------------------------------------------
(* PathWrapper: a path is the sequence of its components, each with a stem *)
(* and an extension.                                                       *)

Component(stem, ext) == [stem |-> stem, ext |-> ext]

\* PathWrapper::parent: the path without its last component
Parent(p) == IF p = <<>> THEN <<>> ELSE SubSeq(p, 1, Len(p) - 1)

\* PathWrapper::file_stem_to_string: the last component without its extension,
\* the empty string for a path without components
FileStemToString(p) == IF p = <<>> THEN EmptyStr ELSE p[Len(p)].stem

----------------------------------------------------------------------------
(* Filter::is_skipped *)

None == [some |-> FALSE, val |-> EmptyStr]
Some(s) == [some |-> TRUE, val |-> s]

\* let dir_name = path.parent().file_stem_to_string();
DirName(p) == FileStemToString(Parent(p))
\* let file_name = path.file_stem_to_string();
FileName(p) == FileStemToString(p)

\* a bug variant: the entries are compared with the directory name
SkipByFilenameOfDir(f, dir, file) ==
    IF ContainsKey(f.filename, dir) THEN Contains(f.filename[dir], dir) ELSE FALSE

\* a bug variant: the file stem is looked up under every directory
SkipByFilenameAnyDir(f, dir, file) ==
    \E d \in DOMAIN f.filename : Contains(f.filename[d], file)

\* self.filename.get(&dir_name).map(|files| files.iter().any(..)).unwrap_or_default()
SkipByFilename(f, dir, file) ==
    IF ContainsKey(f.filename, dir) THEN Contains(f.filename[dir], file) ELSE FALSE

\* a bug variant: the test names are consulted without a case name too
SkipByTestNameAlways(f, dir, case) ==
    IF ContainsKey(f.test_name, dir)
    THEN f.test_name[dir] # <<>> /\ (case.some => Contains(f.test_name[dir], case.val))
    ELSE FALSE

\* if let Some(case_name) = case_name { self.test_name.get(&dir_name).map(..) }
SkipByTestName(f, dir, case) ==
    IF case.some /\ ContainsKey(f.test_name, dir)
    THEN Contains(f.test_name[dir], case.val)
    ELSE FALSE

\* the list the `any` over regexes runs on (no list: nothing to run on)
Regexes(f, dir) == IF ContainsKey(f.regex, dir) THEN f.regex[dir] ELSE <<>>


----------------------------------------------------------------------------
(* Inputs of is_skipped *)

Dirs == {EmptyStr, <<"d">>}
FileNames == {<<"a">>, <<"b">>, <<"a", "b">>}
FileEntries == {<<"a">>, <<"a", "b">>}
TestNames == {<<"t">>, <<"u">>}
Patterns == {<<"b">>, <<"a", ".">>, <<"a", "*">>, <<"(">>}
Json == <<"j">>

\* <<>>, <<file>> and <<dir, file>>
Paths ==
    {<<>>}
    \cup {<<Component(f, Json)>> : f \in FileNames}
    \cup {<<Component(d, EmptyStr), Component(f, Json)>> : d \in Dirs, f \in FileNames}

\* the documents whose entries all sit under one directory
Filters ==
    UNION {[filename : SingleMaps({k}, SeqUpTo(FileEntries, MaxNames)),
            regex : SingleMaps({k}, SeqUpTo(Patterns, MaxRegexes)),
            test_name : SingleMaps({k}, SeqUpTo(TestNames, MaxNames))] : k \in Dirs}

EmptyMap == [k \in {} |-> <<>>]
EmptyFilter == [filename |-> EmptyMap, regex |-> EmptyMap, test_name |-> EmptyMap]

\* the variables of Filter::diff and map_diff, at rest
DiffIdle ==
    /\ other = EmptyFilter
    /\ lhs = EmptyMap
    /\ rhs = EmptyMap
    /\ top = <<>>
    /\ pass = 0
    /\ ki = 0
    /\ diff_ab = <<>>
    /\ diff_ba = <<>>

DiffVars == <<other, lhs, rhs, top, pass, ki, diff_ab, diff_ba>>

InitSkip ==
    /\ self \in Filters
    /\ path \in Paths
    /\ case_name \in {None} \cup {Some(t) : t \in TestNames}
    /\ pc = "filename"
    /\ should_skip = FALSE
    /\ ri = 0
    /\ DiffIdle

\* let mut should_skip = self.filename.get(&dir_name)...
CheckFilename ==
    /\ pc = "filename"
    /\ should_skip' = SkipByFilename(self, DirName(path), FileName(path))
    /\ ri' = 1
    /\ pc' = "regex"
    /\ UNCHANGED <<self, path, case_name, DiffVars>>

\* the closure of `any` on one pattern: it does not compile
RegexPanic ==
    /\ pc = "regex"
    /\ ri <= Len(Regexes(self, DirName(path)))
    /\ PatternOutcome(Regexes(self, DirName(path))[ri], FileName(path)) = "panic"
    /\ pc' = "panic"
    /\ UNCHANGED <<self, path, case_name, should_skip, ri, DiffVars>>

\* the closure of `any` on one pattern: it matches, `any` stops, should_skip |= true
RegexMatch ==
    /\ pc = "regex"
    /\ ri <= Len(Regexes(self, DirName(path)))
    /\ PatternOutcome(Regexes(self, DirName(path))[ri], FileName(path)) = "match"
    /\ should_skip' = TRUE
    /\ pc' = "testname"
    /\ UNCHANGED <<self, path, case_name, ri, DiffVars>>

\* the closure of `any` on one pattern: no match, `any` goes on
RegexNoMatch ==
    /\ pc = "regex"
    /\ ri <= Len(Regexes(self, DirName(path)))
    /\ PatternOutcome(Regexes(self, DirName(path))[ri], FileName(path)) = "nomatch"
    /\ ri' = ri + 1
    /\ UNCHANGED <<self, path, case_name, pc, should_skip, DiffVars>>

\* `any` ran out of patterns (or there is no list): should_skip |= false
RegexEnd ==
    /\ pc = "regex"
    /\ ri > Len(Regexes(self, DirName(path)))
    /\ pc' = "testname"
    /\ UNCHANGED <<self, path, case_name, should_skip, ri, DiffVars>>

\* if let Some(case_name) = case_name { should_skip |= ... }; should_skip
CheckTestName ==
    /\ pc = "testname"
    /\ should_skip' = (should_skip \/ SkipByTestName(self, DirName(path), case_name))
    /\ pc' = "done"
    /\ UNCHANGED <<self, path, case_name, ri, DiffVars>>

NextSkip ==
    \/ CheckFilename
    \/ RegexPanic
    \/ RegexMatch
    \/ RegexNoMatch
    \/ RegexEnd
    \/ CheckTestName

SkipSpec == InitSkip /\ [][NextSkip]_vars


----------------------------------------------------------------------------
(* map_diff *)

Min(a, b) == IF a < b THEN a ELSE b

\* a bug variant: the lists are compared as wholes
ListsEqual(l, r) == l = r

\* lhs.iter().zip(rhs.iter()).all(|(lhs, rhs)| lhs == rhs)
ListsSame(l, r) == \A i \in 1..Min(Len(l), Len(r)) : l[i] = r[i]

Kept(t) == [top |-> t, panic |-> FALSE]
Panicked(t) == [top |-> t, panic |-> TRUE]

\* a bug variant: the `continue` after the push of a one-sided key is missing
VisitKeyNoContinue(t, l, r, key) ==
    IF ~ContainsKey(r, key) THEN Panicked(IF Contains(t, key) THEN t ELSE Append(t, key))
    ELSE IF ~ListsSame(l[key], r[key]) /\ ~Contains(t, key) THEN Kept(Append(t, key))
    ELSE Kept(t)

\* a bug variant: a key whose lists differ is pushed without looking into `top`
VisitKeyNoDedupe(t, l, r, key) ==
    IF ~ContainsKey(r, key) /\ ~Contains(t, key) THEN Kept(Append(t, key))
    ELSE IF ~ContainsKey(r, key) THEN Panicked(t)
    ELSE IF ~ListsSame(l[key], r[key]) THEN Kept(Append(t, key))
    ELSE Kept(t)

\* a bug variant: `||` for the `&&` of the first `if`
VisitKeyOr(t, l, r, key) ==
    IF ~ContainsKey(r, key) \/ ~Contains(t, key) THEN Kept(Append(t, key))
    ELSE IF ~ListsSame(l[key], r[key]) /\ ~Contains(t, key) THEN Kept(Append(t, key))
    ELSE Kept(t)

\* one turn of the `for` loop of the closure `diff`: the push and `continue` of a
\* key `rhs` lacks, else rhs.get(key).unwrap(), which panics on a key `rhs`
\* lacks, and the push of a key whose lists are not the same
VisitKey(t, l, r, key) ==
    IF ~ContainsKey(r, key) /\ ~Contains(t, key) THEN Kept(Append(t, key))
    ELSE IF ~ContainsKey(r, key) THEN Panicked(t)
    ELSE IF ~ListsSame(l[key], r[key]) /\ ~Contains(t, key) THEN Kept(Append(t, key))
    ELSE Kept(t)

\* the closure `diff` from the i-th key of `l` on; a panic ends it
RECURSIVE DiffFrom(_, _, _, _)
DiffFrom(t, l, r, i) ==
    IF i > Len(Keys(l)) THEN Kept(t)
    ELSE LET v == VisitKey(t, l, r, Keys(l)[i])
         IN  IF v.panic THEN v ELSE DiffFrom(v.top, l, r, i + 1)

\* a bug variant: only diff(&mut top, lhs, rhs) is run
MapDiffOneWay(l, r) == DiffFrom(<<>>, l, r, 1)

\* map_diff(lhs, rhs): diff(&mut top, lhs, rhs); diff(&mut top, rhs, lhs); top
MapDiff(l, r) ==
    LET first == DiffFrom(<<>>, l, r, 1)
    IN  IF first.panic THEN first ELSE DiffFrom(first.top, r, l, 1)

\* Filter::diff: the three map_diff results appended to `diff`
FilterDiff(a, b) ==
    LET f == MapDiff(a.filename, b.filename)
        g == MapDiff(a.regex, b.regex)
        h == MapDiff(a.test_name, b.test_name)
    IN  IF f.panic \/ g.panic \/ h.panic THEN Panicked(<<>>)
        ELSE Kept(f.top \o g.top \o h.top)

----------------------------------------------------------------------------
(* Inputs of map_diff *)

DiffKeys == {<<"a">>, <<"b">>}
Entries == {<<"x">>, <<"y">>}

SkipIdle ==
    /\ path = <<>>
    /\ case_name = None
    /\ should_skip = FALSE
    /\ ri = 0

SkipVars == <<path, case_name, should_skip, ri>>

InitMapDiff ==
    /\ lhs \in MapsOver(DiffKeys, SeqUpTo(Entries, MaxList))
    /\ rhs \in MapsOver(DiffKeys, SeqUpTo(Entries, MaxList))
    /\ top = <<>>
    /\ pass = 1
    /\ ki = 1
    /\ pc = "diff"
    /\ self = EmptyFilter
    /\ other = EmptyFilter
    /\ diff_ab = <<>>
    /\ diff_ba = <<>>
    /\ SkipIdle

\* the mapping the running pass iterates, and the one it looks keys up in
Iterated == IF pass = 1 THEN lhs ELSE rhs
LookedUp == IF pass = 1 THEN rhs ELSE lhs

\* one turn of `for (key, _) in lhs.iter()`
Visit ==
    /\ pc = "diff"
    /\ ki <= Len(Keys(Iterated))
    /\ LET v == VisitKey(top, Iterated, LookedUp, Keys(Iterated)[ki])
       IN  /\ top' = v.top
           /\ pc' = IF v.panic THEN "panic" ELSE "diff"
    /\ ki' = ki + 1
    /\ UNCHANGED <<self, other, lhs, rhs, pass, diff_ab, diff_ba, SkipVars>>

\* diff(&mut top, lhs, rhs) is over: diff(&mut top, rhs, lhs) starts
SecondPass ==
    /\ pc = "diff"
    /\ pass = 1
    /\ ki > Len(Keys(Iterated))
    /\ pass' = 2
    /\ ki' = 1
    /\ UNCHANGED <<self, other, lhs, rhs, top, pc, diff_ab, diff_ba, SkipVars>>

\* diff(&mut top, rhs, lhs) is over: `top` is returned
ReturnTop ==
    /\ pc = "diff"
    /\ pass = 2
    /\ ki > Len(Keys(Iterated))
    /\ pc' = "done"
    /\ UNCHANGED <<self, other, lhs, rhs, top, pass, ki, diff_ab, diff_ba, SkipVars>>

NextMapDiff ==
    \/ Visit
    \/ SecondPass
    \/ ReturnTop

MapDiffSpec == InitMapDiff /\ [][NextMapDiff]_vars

----------------------------------------------------------------------------
(* Inputs of Filter::diff *)

DocLists == {<<"x">>, <<"y">>, <<"x", "y">>}

\* the documents whose mappings hold at most one directory each
Documents ==
    [filename : SingleMaps(DiffKeys, DocLists),
     regex : SingleMaps(DiffKeys, DocLists),
     test_name : SingleMaps(DiffKeys, DocLists)]

InitDiff ==
    /\ self \in Documents
    /\ other \in Documents
    /\ pc = "diff_ab"
    /\ diff_ab = <<>>
    /\ diff_ba = <<>>
    /\ lhs = EmptyMap
    /\ rhs = EmptyMap
    /\ top = <<>>
    /\ pass = 0
    /\ ki = 0
    /\ SkipIdle

\* self.diff(&other)
CallDiff ==
    /\ pc = "diff_ab"
    /\ LET d == FilterDiff(self, other)
       IN  /\ diff_ab' = d.top
           /\ pc' = IF d.panic THEN "panic" ELSE "diff_ba"
    /\ UNCHANGED <<self, other, diff_ba, lhs, rhs, top, pass, ki, SkipVars>>

\* other.diff(&self)
CallDiffBack ==
    /\ pc = "diff_ba"
    /\ LET d == FilterDiff(other, self)
       IN  /\ diff_ba' = d.top
           /\ pc' = IF d.panic THEN "panic" ELSE "done"
    /\ UNCHANGED <<self, other, diff_ab, lhs, rhs, top, pass, ki, SkipVars>>

NextDiff ==
    \/ CallDiff
    \/ CallDiffBack

DiffSpec == InitDiff /\ [][NextDiff]_vars


----------------------------------------------------------------------------
(* Vocabulary of the properties, stated without the operators above *)

Range(list) == {list[i] : i \in DOMAIN list}

\* the list a mapping holds under a key, none for a key it lacks
ListOf(m, k) == IF k \in DOMAIN m THEN m[k] ELSE <<>>

dir_name == DirName(path)
file_name == FileName(path)

\* pattern p compiles and matches some substring text[i..j-1] as a whole
MatchesSubstring(p, text) ==
    /\ RegexNew(p).ok
    /\ \E i \in 1..(Len(text) + 1) : \E j \in i..(Len(text) + 1) :
           MatchAt(RegexNew(p).items, 1, SubSeq(text, i, j - 1), 1, TRUE)

FilenameTerm == file_name \in Range(ListOf(self.filename, dir_name))
RegexTerm == \E p \in Range(ListOf(self.regex, dir_name)) : MatchesSubstring(p, file_name)
TestNameTerm == case_name.some /\ case_name.val \in Range(ListOf(self.test_name, dir_name))

RegexList == ListOf(self.regex, dir_name)
AllCompile == \A p \in Range(RegexList) : RegexNew(p).ok

\* a pattern that does not compile stands in the list with no matching pattern before it
BadBeforeMatch ==
    \E i \in DOMAIN RegexList :
        /\ ~RegexNew(RegexList[i]).ok
        /\ \A k \in 1..(i - 1) : ~MatchesSubstring(RegexList[k], file_name)

\* the call panicked on the first pattern that does not compile, none before it matching
PanickedOnBadPattern ==
    /\ ri \in DOMAIN RegexList
    /\ ~RegexNew(RegexList[ri]).ok
    /\ \A k \in 1..(ri - 1) :
           RegexNew(RegexList[k]).ok /\ ~MatchesSubstring(RegexList[k], file_name)

----------------------------------------------------------------------------
(* Properties of Filter::is_skipped, under SkipSpec *)

\* C1: when every pattern under the path's directory compiles, is_skipped does not
\* panic and returns exactly (file_name in filename[dir_name]) or (some pattern of
\* regex[dir_name] matches a substring of file_name) or (case_name is present and in
\* testname[dir_name]); a missing key makes its term false, and so does a missing
\* case name for the test-name term.
C1_SkipIsDisjunction ==
    AllCompile =>
        /\ pc # "panic"
        /\ pc = "done" => (should_skip <=> (FilenameTerm \/ RegexTerm \/ TestNameTerm))

\* a call without a case name returned false although testname[dir_name] has entries
C1_Witness ==
    /\ pc = "done"
    /\ AllCompile
    /\ RegexList # <<>>
    /\ ~case_name.some
    /\ ListOf(self.test_name, dir_name) # <<>>
    /\ ~should_skip

\* C2 as claimed: a file stem listed in filename[dir_name] makes is_skipped return
\* true whatever regex[dir_name] holds, a pattern that does not compile included.
C2_Original ==
    FilenameTerm => (pc # "panic" /\ (pc = "done" => should_skip))

\* C2: a file stem listed in filename[dir_name] never makes is_skipped return false:
\* the call returns true for every case name and every testname content, unless
\* regex[dir_name] holds a pattern that does not compile with no matching pattern
\* before it, and then, and only then, the call panics.
C2_FilenameSkips ==
    FilenameTerm =>
        /\ pc = "done" => should_skip
        /\ pc = "panic" => PanickedOnBadPattern
        /\ ~BadBeforeMatch => pc # "panic"

\* a listed file stem was skipped although a later pattern does not compile
C2_Witness ==
    /\ pc = "done"
    /\ FilenameTerm
    /\ ~AllCompile
    /\ should_skip

\* C3 as claimed: a pattern of regex[dir_name] that matches a substring of file_name
\* makes is_skipped return true whatever the other patterns are, patterns before
\* it that do not compile included.
C3_Original ==
    RegexTerm => (pc # "panic" /\ (pc = "done" => should_skip))

\* C3: a pattern of regex[dir_name] that matches a substring of file_name makes
\* is_skipped return true whatever the patterns after the first matching one are;
\* when a pattern before the first matching one does not compile the call panics,
\* and it panics in no other case.
C3_RegexSkips ==
    RegexTerm =>
        /\ pc = "done" => should_skip
        /\ pc = "panic" => PanickedOnBadPattern
        /\ ~BadBeforeMatch => pc # "panic"

\* the second pattern of the list matched after the first did not, nothing else skipping
C3_Witness ==
    /\ pc = "done"
    /\ Len(RegexList) >= 2
    /\ ~MatchesSubstring(RegexList[1], file_name)
    /\ MatchesSubstring(RegexList[2], file_name)
    /\ ~FilenameTerm
    /\ ~TestNameTerm
    /\ should_skip

\* C4: a pattern that does not compile is never taken as "no match": a call that
\* returns false has compiled every pattern of regex[dir_name] with success, a call
\* that returns at all has compiled no failing pattern (patterns 1..ri when a match
\* ended the scan), and a call that reached a failing pattern has panicked.
C4_BadPatternIsFatal ==
    /\ (pc = "done" /\ ~should_skip) => AllCompile
    /\ pc \in {"testname", "done"} =>
           \A i \in DOMAIN RegexList : i <= ri => RegexNew(RegexList[i]).ok
    /\ pc = "regex" => \A i \in DOMAIN RegexList : i < ri => RegexNew(RegexList[i]).ok
    /\ pc = "panic" <=> (pc \notin {"filename", "regex"} /\ BadBeforeMatch)

\* the call panicked on the second pattern of the list
C4_Witness ==
    /\ pc = "panic"
    /\ ri = 2
    /\ ~RegexNew(RegexList[2]).ok

\* C9 as claimed: with an empty directory name is_skipped returns false without an
\* error for every document, one with entries under the empty-string key included.
C9_Original ==
    dir_name = EmptyStr => (pc # "panic" /\ (pc = "done" => ~should_skip))

NoEntryUnderEmpty ==
    /\ EmptyStr \notin DOMAIN self.filename
    /\ EmptyStr \notin DOMAIN self.regex
    /\ EmptyStr \notin DOMAIN self.test_name

\* C9: with an empty directory name (no parent, or a parent with an empty stem)
\* is_skipped looks the empty string up in all three mappings: for a document with
\* no entry under the empty-string key it returns false without an error, and a
\* document's entries under that key are consulted as any other directory's are.
C9_EmptyDirName ==
    dir_name = EmptyStr =>
        /\ NoEntryUnderEmpty => (pc # "panic" /\ (pc = "done" => ~should_skip))
        /\ pc = "panic" => PanickedOnBadPattern
        /\ pc = "done" =>
               (should_skip <=>
                    \/ file_name \in Range(ListOf(self.filename, EmptyStr))
                    \/ \E p \in Range(ListOf(self.regex, EmptyStr)) :
                           MatchesSubstring(p, file_name)
                    \/ /\ case_name.some
                       /\ case_name.val \in Range(ListOf(self.test_name, EmptyStr)))

\* a path without a parent was not skipped by a document that lists its file stem,
\* a pattern matching it and the case name under another directory
C9_Witness ==
    /\ pc = "done"
    /\ Len(path) = 1
    /\ \E d \in DOMAIN self.filename : file_name \in Range(self.filename[d])
    /\ \E d \in DOMAIN self.regex : \E p \in Range(self.regex[d]) :
           MatchesSubstring(p, file_name)
    /\ \E d \in DOMAIN self.test_name :
           case_name.some /\ case_name.val \in Range(self.test_name[d])
    /\ ~should_skip


----------------------------------------------------------------------------
(* Properties of map_diff, under MapDiffSpec *)

\* the key is in one mapping only
OneSided(l, r, k) == (k \in DOMAIN l) # (k \in DOMAIN r)

\* the key is in both mappings and its lists differ at an index both have
DifferBelowShorter(l, r, k) ==
    /\ k \in DOMAIN l
    /\ k \in DOMAIN r
    /\ \E i \in DOMAIN l[k] \cap DOMAIN r[k] : l[k][i] # r[k][i]

\* the one list is the start of the other (the lists may be equal)
IsPrefix(s, t) == Len(s) <= Len(t) /\ s = SubSeq(t, 1, Len(s))

Differing(l, r) ==
    {k \in DOMAIN l \cup DOMAIN r : OneSided(l, r, k) \/ DifferBelowShorter(l, r, k)}

\* C7: the keys map_diff returns are exactly the keys in one mapping only and the
\* keys in both whose lists differ at an index below the shorter list's length; a
\* key whose one list is a prefix of the other (an empty list against a non-empty
\* one, equal lists) is not returned.
C7_MapDiffKeys ==
    pc = "done" =>
        /\ Range(top) = Differing(lhs, rhs)
        /\ \A k \in DOMAIN lhs \cap DOMAIN rhs :
               (IsPrefix(lhs[k], rhs[k]) \/ IsPrefix(rhs[k], lhs[k])) => k \notin Range(top)

\* map_diff returned one key and left out another whose non-empty list in the one
\* mapping is a strict prefix of its list in the other
C7_Witness ==
    /\ pc = "done"
    /\ top # <<>>
    /\ \E k \in DOMAIN lhs \cap DOMAIN rhs :
           /\ lhs[k] # <<>>
           /\ Len(lhs[k]) < Len(rhs[k])
           /\ IsPrefix(lhs[k], rhs[k])
           /\ k \notin Range(top)

\* the key the `for` loop is about to visit
AtKey == pc = "diff" /\ ki \in DOMAIN Keys(Iterated)
CurrentKey == Keys(Iterated)[ki]

\* C10: map_diff never unwraps a missing key: in both passes a key the other
\* mapping lacks is not yet in `top` when the loop visits it, so that it is pushed
\* and skipped by `continue`, and no call panics.
C10_NoMissingKeyUnwrap ==
    /\ pc # "panic"
    /\ (AtKey /\ CurrentKey \notin DOMAIN LookedUp) => CurrentKey \notin Range(top)

\* the second pass is about to visit a key of rhs that lhs lacks, `top` holding a key
C10_Witness ==
    /\ AtKey
    /\ pass = 2
    /\ top # <<>>
    /\ CurrentKey \notin DOMAIN LookedUp

----------------------------------------------------------------------------
(* Properties of Filter::diff, under DiffSpec *)

Called == pc \in {"diff_ba", "done"}

\* how often a key stands in a list
Count(list, k) == Cardinality({i \in DOMAIN list : list[i] = k})

\* the list with its i-th element removed
Without(list, i) == SubSeq(list, 1, i - 1) \o SubSeq(list, i + 1, Len(list))

\* Vec::sort on a list of Strings: the least element first, then the others sorted
RECURSIVE Sorted(_)
Sorted(list) ==
    IF list = <<>> THEN <<>>
    ELSE LET i == CHOOSE n \in DOMAIN list :
                      \A m \in DOMAIN list : ~StrLess(list[m], list[n])
         IN  <<list[i]>> \o Sorted(Without(list, i))

\* the number of the three mappings in which the key differs
KindsDiffering(a, b, k) ==
    (IF k \in Differing(a.filename, b.filename) THEN 1 ELSE 0)
    + (IF k \in Differing(a.regex, b.regex) THEN 1 ELSE 0)
    + (IF k \in Differing(a.test_name, b.test_name) THEN 1 ELSE 0)

\* C5: the diff of a document with itself is the empty list.
C5_DiffSelfEmpty ==
    (self = other) =>
        /\ pc # "panic"
        /\ Called => diff_ab = <<>>
        /\ pc = "done" => diff_ba = <<>>

\* a document with entries in all three mappings was diffed with itself
C5_Witness ==
    /\ pc = "diff_ba"
    /\ self = other
    /\ DOMAIN self.filename # {}
    /\ DOMAIN self.regex # {}
    /\ DOMAIN self.test_name # {}
    /\ diff_ab = <<>>

\* C6: Filter::diff is symmetric up to order: the sorted diff(A, B) is the sorted
\* diff(B, A).
C6_DiffSymmetric ==
    pc = "done" => Sorted(diff_ab) = Sorted(diff_ba)

\* the two diffs hold the same directories in different orders
C6_Witness ==
    /\ pc = "done"
    /\ Len(diff_ab) >= 2
    /\ diff_ab # diff_ba

\* C8 as claimed: every directory stands at most once in the list Filter::diff
\* returns, also when it differs in several of the three mappings.
C8_Original ==
    Called => \A k \in DiffKeys : Count(diff_ab, k) <= 1

\* C8: Filter::diff returns every directory once for each of the three mappings it
\* differs in (so at most three times, and not at all when it differs in none):
\* the list is deduplicated within one mapping only.
C8_OncePerMapping ==
    Called =>
        /\ Range(diff_ab) \subseteq DiffKeys
        /\ \A k \in DiffKeys : Count(diff_ab, k) = KindsDiffering(self, other, k)

\* a directory that differs in all three mappings stands three times in the diff
C8_Witness ==
    /\ Called
    /\ \E k \in DiffKeys : Count(diff_ab, k) = 3

====
